---- MODULE Spec2Model ----
(***************************************************************************)
(* A model of the schema-grounded query pipeline of sql-query-assistant:   *)
(* src/src/llm_chain.py (snapshot builder, alias assigner, sanitizer,      *)
(* validator, orchestrator) over the helpers of src/src/database.py.       *)
(*                                                                         *)
(* A Python str is modelled as a sequence of one-character strings, so     *)
(* that 'in', str.replace, str.split, str.lower and the regular            *)
(* expressions are computed character by character as the code does.       *)
(***************************************************************************)
EXTENDS Integers, Sequences, FiniteSets, TLC

\* ------------------------------------------------------------------------
\* Characters and character classes (Python's re: \w, \s; str.lower)
\* ------------------------------------------------------------------------

DQ == "\""

UPPERS == <<"A", "B", "C", "D", "E", "F", "G", "H", "I", "J", "K", "L", "M",
    "N", "O", "P", "Q", "R", "S", "T", "U", "V", "W", "X", "Y", "Z">>

LOWERS == <<"a", "b", "c", "d", "e", "f", "g", "h", "i", "j", "k", "l", "m",
    "n", "o", "p", "q", "r", "s", "t", "u", "v", "w", "x", "y", "z">>

DIGITS == <<"0", "1", "2", "3", "4", "5", "6", "7", "8", "9">>

Range(f) == {f[i] : i \in DOMAIN f}

\* \w : letters, digits and the underscore
WordChars == Range(UPPERS) \cup Range(LOWERS) \cup Range(DIGITS) \cup {"_"}

\* \s, and what str.strip() removes
SpaceChars == {" ", "\n", "\t"}

\* str.lower() on one character
LowerChar(c) ==
    IF c \in Range(UPPERS)
    THEN LOWERS[CHOOSE i \in DOMAIN UPPERS : UPPERS[i] = c]
    ELSE c

\* str.lower()
StrLower(s) == [i \in DOMAIN s |-> LowerChar(s[i])]

\* ------------------------------------------------------------------------
\* Python str operations
\* ------------------------------------------------------------------------

\* s[i:].startswith(p), 1-based
MatchAt(s, i, p) ==
    /\ i + Len(p) - 1 <= Len(s)
    /\ \A k \in 1..Len(p) : s[i + k - 1] = p[k]

\* the same under re.IGNORECASE
MatchAtNoCase(s, i, p) == MatchAt(StrLower(s), i, StrLower(p))

\* p in s
Contains(s, p) == \E i \in 1..(Len(s) - Len(p) + 1) : MatchAt(s, i, p)

\* the first index j >= i with s[j] outside the class C (Len(s)+1 if none):
\* the end of a greedy run C* starting at i
RunEnd(s, i, C) ==
    CHOOSE j \in i..(Len(s) + 1) :
        /\ \A k \in i..(j - 1) : s[k] \in C
        /\ (j = Len(s) + 1 \/ s[j] \notin C)

\* s.replace(old, new): every non-overlapping occurrence, left to right
RECURSIVE ReplaceFrom(_, _, _, _)
ReplaceFrom(s, i, old, new) ==
    IF i > Len(s) THEN <<>>
    ELSE IF Len(old) > 0 /\ MatchAt(s, i, old)
         THEN new \o ReplaceFrom(s, i + Len(old), old, new)
         ELSE <<s[i]>> \o ReplaceFrom(s, i + 1, old, new)

Replace(s, old, new) == ReplaceFrom(s, 1, old, new)

\* s.strip()
Strip(s) ==
    LET a == RunEnd(s, 1, SpaceChars)
        keep == {j \in 1..Len(s) : s[j] \notin SpaceChars}
    IN  IF keep = {} THEN <<>>
        ELSE SubSeq(s, a, CHOOSE j \in keep : \A k \in keep : k <= j)

\* s.split(sep) for a one-character separator: the list of fields
RECURSIVE SplitFrom(_, _, _, _)
SplitFrom(s, i, sep, cur) ==
    IF i > Len(s) THEN <<cur>>
    ELSE IF s[i] = sep
         THEN <<cur>> \o SplitFrom(s, i + 1, sep, <<>>)
         ELSE SplitFrom(s, i + 1, sep, Append(cur, s[i]))

Split(s, sep) == SplitFrom(s, 1, sep, <<>>)

\* f"...{n}..." for a positive integer n: its decimal digits
RECURSIVE IntToStr(_)
IntToStr(n) ==
    IF n < 10 THEN <<DIGITS[n + 1]>>
    ELSE IntToStr(n \div 10) \o <<DIGITS[(n % 10) + 1]>>

\* '"' + name + '"'
Quoted(name) == <<DQ>> \o name \o <<DQ>>

SCHEMA_ERROR == <<"S", "C", "H", "E", "M", "A", "_", "E", "R", "R", "O", "R">>
SENTINEL == <<"S", "C", "H", "E", "M", "A", "_", "E", "R", "R", "O", "R", ":",
    " ", "R", "e", "q", "u", "i", "r", "e", "d", " ", "d", "a", "t", "a", " ",
    "n", "o", "t", " ", "a", "v", "a", "i", "l", "a", "b", "l", "e">>
\* the backtick, which a TLA+ string literal cannot hold
BT == "BACKTICK"

FENCE_SQL == <<BT, BT, BT, "s", "q", "l">>
FENCE == <<BT, BT, BT>>
RELATIONSHIPS == <<"r", "e", "l", "a", "t", "i", "o", "n", "s", "h", "i", "p",
    "s">>

\* ------------------------------------------------------------------------
\* Regular expressions (Python's re), as far as the code uses them.
\* A pattern is a sequence of elements: a literal character, `.`, (\w+),
\* \s+ or \s*.  In every pattern of the code a repetition is followed by a
\* character outside its class, so the greedy run is the only way to match.
\* ------------------------------------------------------------------------

Lit(str) == [i \in DOMAIN str |-> [t |-> "lit", c |-> str[i]]]
AnyChar == <<[t |-> "any", c |-> ""]>>
WordGroup == <<[t |-> "word+", c |-> ""]>>
SpacePlus == <<[t |-> "space+", c |-> ""]>>
SpaceStar == <<[t |-> "space*", c |-> ""]>>

NoMatch == [ok |-> FALSE, end |-> 0, groups |-> <<>>]

\* match elements k.. of pat at position i of s
RECURSIVE MatchPat(_, _, _, _, _, _)
MatchPat(s, i, pat, k, groups, nocase) ==
    IF k > Len(pat) THEN [ok |-> TRUE, end |-> i, groups |-> groups]
    ELSE LET e == pat[k] IN
        CASE e.t = "lit" ->
                IF /\ i <= Len(s)
                   /\ \/ s[i] = e.c
                      \/ nocase /\ LowerChar(s[i]) = LowerChar(e.c)
                THEN MatchPat(s, i + 1, pat, k + 1, groups, nocase)
                ELSE NoMatch
          [] e.t = "any" ->
                IF i <= Len(s) /\ s[i] /= "\n"
                THEN MatchPat(s, i + 1, pat, k + 1, groups, nocase)
                ELSE NoMatch
          [] e.t = "word+" ->
                LET j == RunEnd(s, i, WordChars) IN
                IF j > i
                THEN MatchPat(s, j, pat, k + 1,
                              Append(groups, SubSeq(s, i, j - 1)), nocase)
                ELSE NoMatch
          [] e.t = "space+" ->
                LET j == RunEnd(s, i, SpaceChars) IN
                IF j > i
                THEN MatchPat(s, j, pat, k + 1, groups, nocase)
                ELSE NoMatch
          [] OTHER ->
                MatchPat(s, RunEnd(s, i, SpaceChars), pat, k + 1, groups, nocase)

\* re.findall(pat, s): the groups of every non-overlapping match
RECURSIVE FindAllFrom(_, _, _, _)
FindAllFrom(s, i, pat, nocase) ==
    IF i > Len(s) THEN <<>>
    ELSE LET m == MatchPat(s, i, pat, 1, <<>>, nocase) IN
         IF m.ok THEN <<m.groups>> \o FindAllFrom(s, m.end, pat, nocase)
         ELSE FindAllFrom(s, i + 1, pat, nocase)

FindAll(pat, s, nocase) == FindAllFrom(s, 1, pat, nocase)

\* r'(fence)sql\s*|\s*(fence)' : the two alternatives, (fence) being three
\* backticks
PatFenceSql == Lit(FENCE_SQL) \o SpaceStar
PatFenceBare == SpaceStar \o Lit(FENCE)

\* re.sub(r'(fence)sql\s*|\s*(fence)', '', sql, flags=re.IGNORECASE)
RECURSIVE RemoveFencesFrom(_, _)
RemoveFencesFrom(s, i) ==
    IF i > Len(s) THEN <<>>
    ELSE LET a == MatchPat(s, i, PatFenceSql, 1, <<>>, TRUE)
             b == MatchPat(s, i, PatFenceBare, 1, <<>>, TRUE)
         IN  IF a.ok THEN RemoveFencesFrom(s, a.end)
             ELSE IF b.ok THEN RemoveFencesFrom(s, b.end)
             ELSE <<s[i]>> \o RemoveFencesFrom(s, i + 1)

RemoveFences(s) == RemoveFencesFrom(s, 1)

\* r'"(\w+)"'
PatQuoted == Lit(<<DQ>>) \o WordGroup \o Lit(<<DQ>>)

\* r'"(\w+)"."(\w+)"' : the dot is unescaped, it matches any character
PatQualified == PatQuoted \o AnyChar \o PatQuoted

\* r'JOIN\s+"(\w+)"\s+ON\s+"(\w+)"."(\w+)"\s*=\s*"(\w+)"."(\w+)"'
PatJoin ==
    Lit(<<"J", "O", "I", "N">>) \o SpacePlus \o PatQuoted \o SpacePlus
    \o Lit(<<"O", "N">>) \o SpacePlus \o PatQualified \o SpaceStar
    \o Lit(<<"=">>) \o SpaceStar \o PatQualified

\* ------------------------------------------------------------------------
\* Python dicts (insertion-ordered): a sequence of [k, v] entries
\* ------------------------------------------------------------------------

DictHas(d, k) == \E i \in DOMAIN d : d[i].k = k

DictGet(d, k) == d[CHOOSE i \in DOMAIN d : d[i].k = k].v

\* d[k] = v : a new key goes last, an old key keeps its place
DictSet(d, k, v) ==
    IF DictHas(d, k)
    THEN [i \in DOMAIN d |-> IF d[i].k = k THEN [k |-> k, v |-> v] ELSE d[i]]
    ELSE Append(d, [k |-> k, v |-> v])

DictKeys(d) == [i \in DOMAIN d |-> d[i].k]

\* [x for x in seq if x != drop]
RECURSIVE Without(_, _)
Without(seq, drop) ==
    IF seq = <<>> THEN <<>>
    ELSE IF Head(seq) = drop THEN Without(Tail(seq), drop)
         ELSE <<Head(seq)>> \o Without(Tail(seq), drop)

\* tables = [t for t in schema_metadata.keys() if t != 'relationships']
TableKeys(schema_metadata) == Without(DictKeys(schema_metadata), RELATIONSHIPS)

\* A value of schema_metadata is a table's dict {'columns', 'column_types'}
\* (line 14) or the list of foreign-key rows (line 21).  column_types is
\* written and never read, and is left out.
TableEntry(columns) == [kind |-> "table", columns |-> columns, rows |-> <<>>]
ListEntry(rows) == [kind |-> "list", columns |-> <<>>, rows |-> rows]

\* the characters of a str, each as a str: what indexing a str yields
Chars(str) == [i \in DOMAIN str |-> <<str[i]>>]

\* iterating a table's dict yields its two keys
DICT_KEYS == <<Chars(<<"c", "o", "l", "u", "m", "n", "s">>),
    Chars(<<"c", "o", "l", "u", "m", "n", "_", "t", "y", "p", "e", "s">>)>>

\* what `for rel in schema_metadata.get('relationships', [])` iterates over
RelationshipsOf(schema_metadata) ==
    IF ~DictHas(schema_metadata, RELATIONSHIPS) THEN <<>>
    ELSE LET v == DictGet(schema_metadata, RELATIONSHIPS) IN
         IF v.kind = "list" THEN v.rows ELSE DICT_KEYS

\* an exception: its type and str(e)
Exc(type, msg) == [type |-> type, msg |-> msg]

\* ------------------------------------------------------------------------
\* generate_table_aliases
\* ------------------------------------------------------------------------

MSG_INDEX == <<"s", "t", "r", "i", "n", "g", " ", "i", "n", "d", "e", "x",
    " ", "o", "u", "t", " ", "o", "f", " ", "r", "a", "n", "g", "e">>

\* ''.join(word[0] for word in words); word[0] of an empty word raises
RECURSIVE FirstLetters(_)
FirstLetters(words) ==
    IF words = <<>> THEN <<>>
    ELSE <<Head(words)[1]>> \o FirstLetters(Tail(words))

\* lines 31-37: the base abbreviation of one table name
BaseAbbrev(table) ==
    LET words == Split(table, "_") IN
    IF Len(words) > 1
    THEN FirstLetters(words)
    ELSE SubSeq(table, 1, IF Len(table) < 2 THEN Len(table) ELSE 2)

\* line 34 raises IndexError when a word between underscores is empty
AbbrevRaises(table) ==
    LET words == Split(table, "_") IN
    Len(words) > 1 /\ \E i \in DOMAIN words : words[i] = <<>>

\* lines 40-44: the first of base, base1, base2, ... not yet used
Dedup(base, used) ==
    IF base \notin used THEN base
    ELSE LET free == {n \in 1..(Cardinality(used) + 1) :
                         (base \o IntToStr(n)) \notin used}
         IN  base \o IntToStr(CHOOSE n \in free : \A m \in free : n <= m)

\* line 46: what is stored as the table's alias
StoredAlias(abbrev) == StrLower(abbrev)

\* lines 30-47: the loop, from table i on
RECURSIVE AliasLoop(_, _, _, _)
AliasLoop(tables, i, aliases, used) ==
    IF i > Len(tables) THEN [ok |-> TRUE, aliases |-> aliases]
    ELSE IF AbbrevRaises(tables[i])
         THEN [ok |-> FALSE, exc |-> Exc("IndexError", MSG_INDEX)]
         ELSE LET abbrev == Dedup(BaseAbbrev(tables[i]), used) IN
              AliasLoop(tables, i + 1,
                        DictSet(aliases, tables[i], StoredAlias(abbrev)),
                        used \cup {abbrev})

generate_table_aliases(tables) == AliasLoop(tables, 1, <<>>, {})

\* ------------------------------------------------------------------------
\* clean_sql_query
\* ------------------------------------------------------------------------

MSG_NOT_AVAILABLE == <<"T", "h", "e", " ", "r", "e", "q", "u", "i", "r", "e",
    "d", " ", "d", "a", "t", "a", " ", "i", "s", " ", "n", "o", "t", " ", "a",
    "v", "a", "i", "l", "a", "b", "l", "e", " ", "i", "n", " ", "t", "h", "e",
    " ", "s", "c", "h", "e", "m", "a">>

MSG_EMPTY == <<"G", "e", "n", "e", "r", "a", "t", "e", "d", " ", "S", "Q", "L",
    " ", "q", "u", "e", "r", "y", " ", "i", "s", " ", "e", "m", "p", "t",
    "y">>

\* a faulty variant of the sentinel test: sql.startswith("SCHEMA_ERROR")
HasSentinel_AtStart(sql) == MatchAt(sql, 1, SCHEMA_ERROR)

\* line 158: the test for the escape sentinel, "SCHEMA_ERROR" in sql
HasSentinel(sql) == Contains(sql, SCHEMA_ERROR)

\* a faulty variant of the column loop that leaves out the test of line 173
\* for the quoted name being in the text already
RECURSIVE QuoteColumns_Always(_, _, _)
QuoteColumns_Always(sql, cols, j) ==
    IF j > Len(cols) THEN sql
    ELSE LET col == cols[j] IN
         IF Contains(sql, col)
         THEN QuoteColumns_Always(Replace(sql, col, Quoted(col)), cols, j + 1)
         ELSE QuoteColumns_Always(sql, cols, j + 1)

\* lines 172-174: the columns of one table, from column j on
RECURSIVE QuoteColumns(_, _, _)
QuoteColumns(sql, cols, j) ==
    IF j > Len(cols) THEN sql
    ELSE LET col == cols[j] IN
         IF Contains(sql, col) /\ ~Contains(sql, Quoted(col))
         THEN QuoteColumns(Replace(sql, col, Quoted(col)), cols, j + 1)
         ELSE QuoteColumns(sql, cols, j + 1)

\* lines 168-174: the tables, from table i on
RECURSIVE QuoteTables(_, _, _, _)
QuoteTables(sql, schema_metadata, tables, i) ==
    IF i > Len(tables) THEN sql
    ELSE LET table == tables[i] IN
         IF ~Contains(sql, table) /\ ~Contains(sql, Quoted(table))
         THEN QuoteTables(sql, schema_metadata, tables, i + 1)
         ELSE QuoteTables(
                  QuoteColumns(sql, DictGet(schema_metadata, table).columns, 1),
                  schema_metadata, tables, i + 1)

\* clean_sql_query(sql, schema_metadata): the cleaned text, or the ValueError
clean_sql_query(sql, schema_metadata) ==
    IF HasSentinel(sql)
    THEN [ok |-> FALSE, exc |-> Exc("ValueError", MSG_NOT_AVAILABLE)]
    ELSE LET stripped == Strip(RemoveFences(sql)) IN
         IF stripped = <<>>
         THEN [ok |-> FALSE, exc |-> Exc("ValueError", MSG_EMPTY)]
         ELSE [ok |-> TRUE,
               sql |-> QuoteTables(stripped, schema_metadata,
                                   TableKeys(schema_metadata), 1)]

\* ------------------------------------------------------------------------
\* validate_query
\* ------------------------------------------------------------------------

\* [x[n] for x in seq] as a set
Column(seq, n) == {seq[i][n] : i \in DOMAIN seq}

\* lines 184-187: set(used_tables) is iterated in no fixed order, so any of
\* the quoted names that is no table may be the one the ValueError names
UnknownTables(sql, schema_metadata) ==
    {t \in Column(FindAll(PatQuoted, sql, FALSE), 1) :
        t \notin Range(TableKeys(schema_metadata))}

\* lines 191-195: the first "table"."column" match that fails, if any
RECURSIVE ColumnCheck(_, _, _)
ColumnCheck(matches, i, schema_metadata) ==
    IF i > Len(matches) THEN [ok |-> TRUE]
    ELSE LET table == matches[i][1]
             column == matches[i][2]
         IN  IF ~DictHas(schema_metadata, table)
             THEN [ok |-> FALSE, err |-> "TableNotInSchema",
                   table |-> table, column |-> <<>>]
             ELSE IF DictGet(schema_metadata, table).kind = "list"
             THEN [ok |-> FALSE, err |-> "TypeError",
                   table |-> table, column |-> column]
             ELSE IF column \notin Range(DictGet(schema_metadata, table).columns)
             THEN [ok |-> FALSE, err |-> "UnknownColumn",
                   table |-> table, column |-> column]
             ELSE ColumnCheck(matches, i + 1, schema_metadata)

\* lines 200-203: whether a foreign-key row matches the join
JoinFound(join, relationships) ==
    \E r \in DOMAIN relationships :
        LET rel == relationships[r] IN
        /\ rel[2] = join[1]
        /\ rel[3] = join[3]
        /\ rel[5] = join[4]
        /\ rel[6] = join[5]

\* lines 198-205: the joins st.warning is called for, in order
RECURSIVE JoinWarnings(_, _, _)
JoinWarnings(joins, i, relationships) ==
    IF i > Len(joins) THEN <<>>
    ELSE IF JoinFound(joins[i], relationships)
         THEN JoinWarnings(joins, i + 1, relationships)
         ELSE <<joins[i]>> \o JoinWarnings(joins, i + 1, relationships)

\* validate_query(sql, schema_metadata): the set of its possible outcomes,
\* each either True with the warnings issued, or the ValueError raised
validate_query(sql, schema_metadata) ==
    LET unknown == UnknownTables(sql, schema_metadata)
        cols == ColumnCheck(FindAll(PatQualified, sql, FALSE), 1,
                            schema_metadata)
    IN  IF unknown /= {}
        THEN {[ok |-> FALSE, err |-> "UnknownTable", table |-> t,
               column |-> <<>>, warnings |-> <<>>] : t \in unknown}
        ELSE IF ~cols.ok
        THEN {[ok |-> FALSE, err |-> cols.err, table |-> cols.table,
               column |-> cols.column, warnings |-> <<>>]}
        ELSE {[ok |-> TRUE, err |-> "", table |-> <<>>, column |-> <<>>,
               warnings |-> JoinWarnings(FindAll(PatJoin, sql, TRUE), 1,
                                         RelationshipsOf(schema_metadata))]}

\* ------------------------------------------------------------------------
\* prepare_schema_prompt, get_sql_prompt
\* ------------------------------------------------------------------------

\* str(KeyError(key)) is repr(key)
KeyErrorOf(key) == Exc("KeyError", <<"'">> \o key \o <<"'">>)

\* lines 67-71: the first foreign-key row one of whose tables has no alias
\* raises KeyError; otherwise every row is rendered through the aliases
RECURSIVE RelInfo(_, _, _)
RelInfo(relationships, i, aliases) ==
    IF i > Len(relationships) THEN [ok |-> TRUE, lines |-> <<>>]
    ELSE LET rel == relationships[i]
             from_table == rel[2]
             to_table == rel[5]
         IN  IF ~DictHas(aliases, from_table)
             THEN [ok |-> FALSE, exc |-> KeyErrorOf(from_table)]
             ELSE IF ~DictHas(aliases, to_table)
             THEN [ok |-> FALSE, exc |-> KeyErrorOf(to_table)]
             ELSE LET rest == RelInfo(relationships, i + 1, aliases) IN
                  IF ~rest.ok THEN rest
                  ELSE [ok |-> TRUE,
                        lines |-> <<<<DictGet(aliases, from_table), rel[3],
                                      DictGet(aliases, to_table), rel[6]>>>>
                                  \o rest.lines]

\* prepare_schema_prompt(schema_metadata): the parts the prompt is rendered
\* from (each table with its alias and columns, each relationship line), or
\* the exception raised
prepare_schema_prompt(schema_metadata) ==
    LET tables == TableKeys(schema_metadata)
        al == generate_table_aliases(tables)
    IN  IF ~al.ok THEN [ok |-> FALSE, exc |-> al.exc]
        ELSE LET rel_info == RelInfo(RelationshipsOf(schema_metadata), 1,
                                     al.aliases)
             IN  IF ~rel_info.ok THEN [ok |-> FALSE, exc |-> rel_info.exc]
                 ELSE [ok |-> TRUE,
                       schema_info |->
                           [i \in DOMAIN tables |->
                               [table |-> tables[i],
                                alias |-> DictGet(al.aliases, tables[i]),
                                cols |-> DictGet(schema_metadata,
                                                 tables[i]).columns]],
                       rel_info |-> rel_info.lines,
                       aliases |-> al.aliases]

\* get_sql_prompt(user_question, schema_metadata)
get_sql_prompt(schema_metadata) == prepare_schema_prompt(schema_metadata)

\* ------------------------------------------------------------------------
\* The database behind the Schema Inspector and the Query Executor, and the
\* texts the Language Model Service may return
\* ------------------------------------------------------------------------

PUBLIC == <<"p", "u", "b", "l", "i", "c">>
orders == <<"o", "r", "d", "e", "r", "s">>
customers == <<"c", "u", "s", "t", "o", "m", "e", "r", "s">>
order_id == <<"o", "r", "d", "e", "r", "_", "i", "d">>
cust_id == <<"c", "u", "s", "t", "_", "i", "d">>
id == <<"i", "d">>
emp == <<"e", "m", "p">>
dept == <<"d", "e", "p", "t">>
nonexistent_table == <<"n", "o", "n", "e", "x", "i", "s", "t", "e", "n", "t",
    "_", "t", "a", "b", "l", "e">>
no_such == <<"n", "o", "-", "s", "u", "c", "h">>

\* a row of get_table_relationships: (table_schema, table_name, column_name,
\* foreign_table_schema, foreign_table_name, foreign_column_name)
FkRow(t, c, ft, fc) == <<PUBLIC, t, c, PUBLIC, ft, fc>>

\* orders(order_id, cust_id), customers(id); orders.cust_id -> customers.id
DbOrders ==
    [tables |-> <<customers, orders>>,
     columns |-> <<[k |-> customers, v |-> <<id>>],
                   [k |-> orders, v |-> <<order_id, cust_id>>]>>,
     fks |-> <<FkRow(orders, cust_id, customers, id)>>]

\* dept(id, emp), emp(id, dept); emp.dept -> dept.emp: a schema whose
\* foreign-key columns carry the name of the table they point to
DbStaff ==
    [tables |-> <<dept, emp>>,
     columns |-> <<[k |-> dept, v |-> <<id, emp>>],
                   [k |-> emp, v |-> <<id, dept>>]>>,
     fks |-> <<FkRow(emp, dept, dept, emp)>>]

\* a database with no table in schema public
DbEmpty == [tables |-> <<>>, columns |-> <<>>, fks |-> <<>>]

Databases == {DbOrders, DbStaff, DbEmpty}

\* customers(id), relationships(id, cust_id); relationships.cust_id ->
\* customers.id: a schema with a table named as the snapshot's key of line 21
DbLinks ==
    [tables |-> <<customers, RELATIONSHIPS>>,
     columns |-> <<[k |-> customers, v |-> <<id>>],
                   [k |-> RELATIONSHIPS, v |-> <<id, cust_id>>]>>,
     fks |-> <<FkRow(RELATIONSHIPS, cust_id, customers, id)>>]

\* the same tables with no foreign key
DbLinksNoKey == [DbLinks EXCEPT !.fks = <<>>]

\* the schemas the database may have while get_schema_metadata reads it
SnapshotDatabases == Databases \cup {DbLinks, DbLinksNoKey}

\* lines 12-17 of get_schema_metadata, from table i on, every read succeeding
RECURSIVE TableEntries(_, _, _, _)
TableEntries(database, tables, i, schema_metadata) ==
    IF i > Len(tables) THEN schema_metadata
    ELSE TableEntries(database, tables, i + 1,
             DictSet(schema_metadata, tables[i],
                     TableEntry(DictGet(database.columns, tables[i]))))

\* lines 19-21 of get_schema_metadata
WithRelationships(schema_metadata, relationships) ==
    IF relationships /= <<>>
    THEN DictSet(schema_metadata, RELATIONSHIPS, ListEntry(relationships))
    ELSE schema_metadata

\* get_schema_metadata() over a database every read of which succeeds
get_schema_metadata(database) ==
    WithRelationships(TableEntries(database, database.tables, 1, <<>>),
                      database.fks)

MSG_NO_RESULTS == <<"N", "o", " ", "r", "e", "s", "u", "l", "t", "s", " ", "f",
    "o", "u", "n", "d", " ", "f", "o", "r", " ", "y", "o", "u", "r", " ", "q",
    "u", "e", "r", "y">>

MSG_CANNOT == <<"I", " ", "c", "a", "n", "n", "o", "t", " ", "a", "n", "s",
    "w", "e", "r", " ", "t", "h", "i", "s", " ", "q", "u", "e", "s", "t", "i",
    "o", "n", " ", "w", "i", "t", "h", " ", "t", "h", "e", " ", "a", "v", "a",
    "i", "l", "a", "b", "l", "e", " ", "d", "a", "t", "a", ".", " ", "P", "l",
    "e", "a", "s", "e", " ", "t", "r", "y", " ", "a", " ", "d", "i", "f", "f",
    "e", "r", "e", "n", "t", " ", "q", "u", "e", "s", "t", "i", "o", "n",
    ".">>

MSG_ERROR_PREFIX == <<"E", "r", "r", "o", "r", ":", " ">>

STR_TABLE == <<"t", "a", "b", "l", "e">>

STR_DOES_NOT_EXIST == <<"d", "o", "e", "s", " ", "n", "o", "t", " ", "e", "x",
    "i", "s", "t">>

MSG_CONNECTION == <<"C", "o", "n", "n", "e", "c", "t", "i", "o", "n", " ", "e",
    "r", "r", "o", "r", ".">>

MSG_REMOTE_TABLE == <<"T", "a", "b", "l", "e", " ", "d", "o", "e", "s", " ",
    "n", "o", "t", " ", "e", "x", "i", "s", "t">>

MSG_NONE_TYPE == <<"a", "r", "g", "u", "m", "e", "n", "t", " ", "o", "f", " ",
    "t", "y", "p", "e", " ", "'", "N", "o", "n", "e", "T", "y", "p", "e", "'",
    " ", "i", "s", " ", "n", "o", "t", " ", "i", "t", "e", "r", "a", "b", "l",
    "e">>

MSG_NO_SECRET == <<"'">> \o <<"G", "R", "O", "Q", "_", "A", "P", "I", "_", "K",
    "E", "Y">> \o <<"'">>

ANSWER == <<"o", "k">>

\* ------------------------------------------------------------------------
\* Generated SQL: the queries the model may write, as a syntax tree and as
\* the text rendered from it
\* ------------------------------------------------------------------------

\* how many names of NamePool the generated queries draw from
NumNames == 9

\* how many rows the Query Executor returns at most
MaxRows == 6

\* how many names of NamePool the completions of process_question draw from
NumCompletionNames == 2

NamePool == <<orders, order_id, nonexistent_table, customers, id, dept, emp,
    no_such, cust_id, PUBLIC>>

Names == {NamePool[i] : i \in 1..NumNames}

KW_SELECT == <<"S", "E", "L", "E", "C", "T">>

KW_FROM == <<"F", "R", "O", "M">>

KW_JOIN == <<"J", "O", "I", "N">>

KW_ON == <<"O", "N">>

SP == <<" ">>

NL == <<"\n">>

\* a column reference: *, c, "c" or "t"."c"
ColRefs(names) ==
    {[form |-> "star", t |-> <<>>, c |-> <<>>]}
    \cup {[form |-> f, t |-> <<>>, c |-> c] : f \in {"bare", "quoted"}, c \in names}
    \cup {[form |-> "qualified", t |-> t, c |-> c] : t \in names, c \in names}

\* a table reference: t or "t"
TabRefs(names) == {[form |-> f, t |-> t] : f \in {"bare", "quoted"}, t \in names}

\* SELECT <column reference> FROM <table reference>
SelectQueries(names) ==
    {[kind |-> "select", col |-> col, tab |-> tab] :
        col \in ColRefs(names), tab \in TabRefs(names)}

\* SELECT * FROM "f" JOIN "j" ON "x"."c" = "y"."d", where x and y are tables
\* of the snapshot and j is one of them, f the other
JoinQueries(names, tables) ==
    {[kind |-> "join", x |-> x, c |-> c, y |-> y, d |-> d, joined |-> j] :
        x \in tables, c \in names, y \in tables, d \in names, j \in {"x", "y"}}

RenderColRef(col) ==
    CASE col.form = "star" -> <<"*">>
      [] col.form = "bare" -> col.c
      [] col.form = "quoted" -> Quoted(col.c)
      [] OTHER -> Quoted(col.t) \o <<".">> \o Quoted(col.c)

RenderTabRef(tab) == IF tab.form = "bare" THEN tab.t ELSE Quoted(tab.t)

\* the table named after JOIN, and the one named after FROM
JoinedTable(q) == IF q.joined = "x" THEN q.x ELSE q.y
FromTable(q) == IF q.joined = "x" THEN q.y ELSE q.x

\* the SQL text of a query
Render(q) ==
    IF q.kind = "select"
    THEN KW_SELECT \o SP \o RenderColRef(q.col) \o SP \o KW_FROM \o SP
         \o RenderTabRef(q.tab)
    ELSE KW_SELECT \o SP \o <<"*">> \o SP \o KW_FROM \o SP
         \o Quoted(FromTable(q)) \o SP \o KW_JOIN \o SP
         \o Quoted(JoinedTable(q)) \o SP \o KW_ON \o SP
         \o Quoted(q.x) \o <<".">> \o Quoted(q.c) \o <<" ", "=", " ">>
         \o Quoted(q.y) \o <<".">> \o Quoted(q.d)

\* the text in a Markdown code fence tagged sql
Fenced(text) == FENCE_SQL \o NL \o text \o NL \o FENCE

\* what completion.choices[0].message.content may be: a query, bare or
\* fenced; the escape sentinel, alone, fenced or after other text; nothing
\* but a fence; the empty text
CompletionTexts ==
    LET names == {NamePool[i] : i \in 1..NumCompletionNames}
        sqls == {Render(q) : q \in SelectQueries(names)}
    IN  sqls \cup {Fenced(sql) : sql \in sqls}
        \cup {SENTINEL, Fenced(SENTINEL),
              Render([kind |-> "select",
                      col |-> [form |-> "star", t |-> <<>>, c |-> <<>>],
                      tab |-> [form |-> "quoted", t |-> orders]])
                  \o NL \o SENTINEL \o NL,
              Fenced(<<>>), <<>>}

\* the messages of the errors the Language Model Service client may raise
LlmErrors == {Exc("APIConnectionError", MSG_CONNECTION),
              Exc("NotFoundError", MSG_REMOTE_TABLE)}

\* the result sets the Query Executor may return: none, one or MaxRows
\* rows; row n is modelled as n
ResultSets == {[i \in 1..n |-> i] : n \in {0, 1, MaxRows}}

\* str(results): the list as Python prints it, [1, 2, 3]
RECURSIVE ReprItems(_, _)
ReprItems(results, i) ==
    IF i > Len(results) THEN <<>>
    ELSE (IF i > 1 THEN <<",", " ">> ELSE <<>>)
         \o IntToStr(results[i]) \o ReprItems(results, i + 1)

Repr(results) == <<"[">> \o ReprItems(results, 1) \o <<"]">>

\* the question of the run; its text has no part in any decision
USER_QUESTION == <<"h", "o", "w", " ", "m", "a", "n", "y", "?">>

\* line 238: the answer-synthesis prompt, an f-string that holds the
\* question and the whole result list
NlPrompt(user_question, results) ==
    <<"Q", "u", "e", "s", "t", "i", "o", "n", ":", " ">> \o user_question
        \o NL \o <<"R", "e", "s", "u", "l", "t", "s", ":", " ">>
        \o Repr(results) \o NL
        \o <<"P", "r", "o", "v", "i", "d", "e", " ", "a", " ", "n", "a", "t",
             "u", "r", "a", "l", " ", "r", "e", "s", "p", "o", "n", "s", "e",
             ":">>

\* ------------------------------------------------------------------------
\* process_question: state
\* ------------------------------------------------------------------------

VARIABLES
    pc,               \* the step process_question is at
    database,         \* the live database
    tables,           \* get_schema_metadata: the list get_all_tables returned
    next_table,       \* get_schema_metadata: the index of the loop of line 12
    schema_metadata,  \* the snapshot being built, then used
    raw_sql,          \* the completion of the SQL-generation call
    cleaned_sql,      \* the sanitized SQL
    results,          \* the rows execute_sql_query returned
    ret,              \* the (sql, results, message) process_question returns
    returned,         \* whether process_question has returned
    escaped,          \* whether an exception left process_question
    failure,          \* the step that failed in this run, "none" if none
    llm_calls,        \* the number of Language Model Service calls made
    executed,         \* the SQL texts passed to execute_sql_query, in order
    nl_prompt,        \* the prompt of the answer-synthesis call, "" before it
    history,          \* get_schema_metadata: the schemas the live database
                      \* has had since the first read
    reads_failed,     \* get_schema_metadata: whether a read returned [] for
                      \* a failed connection or query
    frames,           \* database.py: the helpers running, innermost last
    open_conns,       \* database.py: how many connections are open
    arg,              \* a direct call of a helper: its arguments
    out,              \* a direct call of a helper: its result
    called            \* a direct call of a helper: whether it was made

vars == <<pc, database, tables, next_table, schema_metadata, raw_sql,
          cleaned_sql, results, ret, returned, escaped, failure, llm_calls,
          executed, nl_prompt, history, reads_failed, frames, open_conns,
          arg, out, called>>

run_vars == <<pc, database, tables, next_table, schema_metadata, raw_sql,
              cleaned_sql, results, ret, returned, escaped, failure,
              llm_calls, executed, nl_prompt, history, reads_failed>>

read_vars == <<history, reads_failed>>

conn_vars == <<frames, open_conns>>

call_vars == <<arg, out, called>>

\* the tuple process_question returns
Triple(sql, rows, message) == [sql |-> sql, results |-> rows, message |-> message]

\* a faulty variant of the handler of the outer try: `except ValueError`
HandleException_ValueErrorOnly(e) ==
    IF e.type = "ValueError"
    THEN [escaped |-> FALSE,
          ret |-> Triple(<<>>, <<>>, MSG_ERROR_PREFIX \o e.msg)]
    ELSE [escaped |-> TRUE, ret |-> Triple(<<>>, <<>>, <<>>)]

\* lines 246-250: the handler of the outer try, `except Exception`
HandleException(e) ==
    LET error_msg == e.msg IN
    IF /\ Contains(StrLower(error_msg), STR_TABLE)
       /\ Contains(StrLower(error_msg), STR_DOES_NOT_EXIST)
    THEN [escaped |-> FALSE, ret |-> Triple(<<>>, <<>>, MSG_CANNOT)]
    ELSE [escaped |-> FALSE,
          ret |-> Triple(<<>>, <<>>, MSG_ERROR_PREFIX \o error_msg)]

\* an exception raised inside the try of line 211, at the named step
Raise(step, e) ==
    /\ pc' = "done"
    /\ failure' = step
    /\ escaped' = HandleException(e).escaped
    /\ returned' = ~HandleException(e).escaped
    /\ ret' = HandleException(e).ret

\* process_question returns
Return(sql, rows, message) ==
    /\ pc' = "done"
    /\ returned' = TRUE
    /\ ret' = Triple(sql, rows, message)
    /\ UNCHANGED escaped

NoCall ==
    /\ arg = <<>>
    /\ out = <<>>
    /\ called = FALSE

Init ==
    /\ pc = "client"
    /\ database \in Databases
    /\ tables = <<>>
    /\ next_table = 1
    /\ schema_metadata = <<>>
    /\ raw_sql = [none |-> TRUE, text |-> <<>>]
    /\ cleaned_sql = <<>>
    /\ results = <<>>
    /\ ret = Triple(<<>>, <<>>, <<>>)
    /\ returned = FALSE
    /\ escaped = FALSE
    /\ failure = "none"
    /\ llm_calls = 0
    /\ executed = <<>>
    /\ nl_prompt = <<>>
    /\ history = {}
    /\ reads_failed = FALSE
    /\ frames = <<>>
    /\ open_conns = 0
    /\ NoCall

\* ------------------------------------------------------------------------
\* process_question: steps
\* ------------------------------------------------------------------------

\* line 213: Groq(api_key=st.secrets["GROQ_API_KEY"])
CreateClient ==
    /\ pc = "client"
    /\ \/ /\ pc' = "tables"
          /\ UNCHANGED <<failure, escaped, returned, ret>>
       \/ Raise("client", Exc("KeyError", MSG_NO_SECRET))
    /\ UNCHANGED <<database, tables, next_table, schema_metadata, raw_sql,
                   cleaned_sql, results, llm_calls, executed>>
    /\ UNCHANGED nl_prompt
    /\ UNCHANGED read_vars
    /\ UNCHANGED conn_vars
    /\ UNCHANGED call_vars

\* line 9: tables = get_all_tables(); database.py 22-44 returns [] when the
\* connection or the query fails
GetAllTables ==
    /\ pc = "tables"
    /\ \E ok \in BOOLEAN :
          /\ tables' = IF ok THEN database.tables ELSE <<>>
          /\ reads_failed' = ~ok
    /\ history' = {database}
    /\ next_table' = 1
    /\ schema_metadata' = <<>>
    /\ pc' = "schema"
    /\ UNCHANGED <<database, raw_sql, cleaned_sql, results, ret, returned,
                   escaped, failure, llm_calls, executed>>
    /\ UNCHANGED nl_prompt
    /\ UNCHANGED conn_vars
    /\ UNCHANGED call_vars

\* lines 12-17: one turn of the loop; database.py 46-72 returns [] when the
\* connection or the query fails
GetTableSchema ==
    /\ pc = "schema"
    /\ next_table <= Len(tables)
    /\ \E ok \in BOOLEAN :
          LET table == tables[next_table]
              columns == IF ok /\ DictHas(database.columns, table)
                         THEN DictGet(database.columns, table)
                         ELSE <<>>
          IN  /\ schema_metadata' =
                     DictSet(schema_metadata, table, TableEntry(columns))
              /\ reads_failed' = (reads_failed \/ ~ok)
    /\ next_table' = next_table + 1
    /\ UNCHANGED history
    /\ UNCHANGED <<pc, database, tables, raw_sql, cleaned_sql, results, ret,
                   returned, escaped, failure, llm_calls, executed>>
    /\ UNCHANGED nl_prompt
    /\ UNCHANGED conn_vars
    /\ UNCHANGED call_vars

\* lines 19-23: database.py 74-107 returns [] when the connection or the
\* query fails
GetTableRelationships ==
    /\ pc = "schema"
    /\ next_table > Len(tables)
    /\ \E ok \in BOOLEAN :
          /\ schema_metadata' =
                 WithRelationships(schema_metadata,
                                   IF ok THEN database.fks ELSE <<>>)
          /\ reads_failed' = (reads_failed \/ ~ok)
    /\ pc' = "prompt"
    /\ UNCHANGED history
    /\ UNCHANGED <<database, tables, next_table, raw_sql, cleaned_sql,
                   results, ret, returned, escaped, failure, llm_calls,
                   executed>>
    /\ UNCHANGED nl_prompt
    /\ UNCHANGED conn_vars
    /\ UNCHANGED call_vars

\* line 219: sql_prompt = get_sql_prompt(user_question, schema_metadata)
BuildPrompt ==
    /\ pc = "prompt"
    /\ LET p == get_sql_prompt(schema_metadata) IN
       IF p.ok
       THEN /\ pc' = "generate"
            /\ UNCHANGED <<failure, escaped, returned, ret>>
       ELSE Raise("prompt", p.exc)
    /\ UNCHANGED <<database, tables, next_table, schema_metadata, raw_sql,
                   cleaned_sql, results, llm_calls, executed>>
    /\ UNCHANGED nl_prompt
    /\ UNCHANGED read_vars
    /\ UNCHANGED conn_vars
    /\ UNCHANGED call_vars

\* lines 220-224: the SQL-generation call; the client raises, or the
\* completion's content is a text or None
GenerateSql ==
    /\ pc = "generate"
    /\ llm_calls' = llm_calls + 1
    /\ \/ /\ \E text \in CompletionTexts :
                raw_sql' = [none |-> FALSE, text |-> text]
          /\ pc' = "clean"
          /\ UNCHANGED <<failure, escaped, returned, ret>>
       \/ /\ raw_sql' = [none |-> TRUE, text |-> <<>>]
          /\ pc' = "clean"
          /\ UNCHANGED <<failure, escaped, returned, ret>>
       \/ /\ \E e \in LlmErrors : Raise("generate", e)
          /\ UNCHANGED raw_sql
    /\ UNCHANGED <<database, tables, next_table, schema_metadata,
                   cleaned_sql, results, executed>>
    /\ UNCHANGED nl_prompt
    /\ UNCHANGED read_vars
    /\ UNCHANGED conn_vars
    /\ UNCHANGED call_vars

\* lines 227-230: clean_sql_query, its ValueError returned as the message;
\* `"SCHEMA_ERROR" in None` is a TypeError, which the outer handler takes
CleanSql ==
    /\ pc = "clean"
    /\ IF raw_sql.none
       THEN /\ Raise("clean", Exc("TypeError", MSG_NONE_TYPE))
            /\ UNCHANGED cleaned_sql
       ELSE LET r == clean_sql_query(raw_sql.text, schema_metadata) IN
            IF r.ok
            THEN /\ cleaned_sql' = r.sql
                 /\ pc' = "execute"
                 /\ UNCHANGED <<failure, escaped, returned, ret>>
            ELSE /\ failure' = "clean"
                 /\ Return(<<>>, <<>>, r.exc.msg)
                 /\ UNCHANGED cleaned_sql
    /\ UNCHANGED <<database, tables, next_table, schema_metadata, raw_sql,
                   results, llm_calls, executed>>
    /\ UNCHANGED nl_prompt
    /\ UNCHANGED read_vars
    /\ UNCHANGED conn_vars
    /\ UNCHANGED call_vars

\* lines 233-235: execute_sql_query(cleaned_sql); database.py 154-183
\* returns ([], []) when the connection or the query fails
ExecuteSql ==
    /\ pc = "execute"
    /\ executed' = Append(executed, cleaned_sql)
    /\ \E ok \in BOOLEAN, rows \in ResultSets :
          /\ results' = IF ok THEN rows ELSE <<>>
          /\ IF results' = <<>>
             THEN /\ failure' = IF ok THEN "none" ELSE "execute"
                  /\ Return(cleaned_sql, <<>>, MSG_NO_RESULTS)
             ELSE /\ pc' = "answer"
                  /\ UNCHANGED <<failure, escaped, returned, ret>>
    /\ UNCHANGED <<database, tables, next_table, schema_metadata, raw_sql,
                   cleaned_sql, llm_calls>>
    /\ UNCHANGED nl_prompt
    /\ UNCHANGED read_vars
    /\ UNCHANGED conn_vars
    /\ UNCHANGED call_vars

\* lines 238-244: the answer-synthesis call
SynthesizeAnswer ==
    /\ pc = "answer"
    /\ nl_prompt' = NlPrompt(USER_QUESTION, results)
    /\ llm_calls' = llm_calls + 1
    /\ \/ /\ Return(cleaned_sql, results, ANSWER)
          /\ UNCHANGED failure
       \/ \E e \in LlmErrors : Raise("answer", e)
    /\ UNCHANGED <<database, tables, next_table, schema_metadata, raw_sql,
                   cleaned_sql, results, executed>>
    /\ UNCHANGED read_vars
    /\ UNCHANGED conn_vars
    /\ UNCHANGED call_vars

Next ==
    \/ CreateClient
    \/ GetAllTables
    \/ GetTableSchema
    \/ GetTableRelationships
    \/ BuildPrompt
    \/ GenerateSql
    \/ CleanSql
    \/ ExecuteSql
    \/ SynthesizeAnswer

Spec == Init /\ [][Next]_vars

\* ------------------------------------------------------------------------
\* Properties of process_question
\* ------------------------------------------------------------------------

\* C1: every SQL text passed to execute_sql_query is one that validate_query
\* accepts against the snapshot of the run: no query naming an unknown table
\* or an unknown qualified column reaches the Query Executor.  (Stated for
\* the runs whose snapshot has a table, where the validator has a schema to
\* check against.)
C1_ExecutedOnlyIfValidated ==
    TableKeys(schema_metadata) /= <<>> =>
        \A i \in DOMAIN executed :
            \A o \in validate_query(executed[i], schema_metadata) : o.ok

\* C2: once the completion holds the escape sentinel anywhere, nothing is
\* ever passed to execute_sql_query, the run goes from sanitizing straight
\* to its end, and it returns ("", [], the schema-unsatisfiable message).
C2_SentinelNeverExecuted ==
    (~raw_sql.none /\ Contains(raw_sql.text, SENTINEL)) =>
        /\ executed = <<>>
        /\ pc \in {"clean", "done"}
        /\ pc = "done" =>
              /\ returned
              /\ ~escaped
              /\ ret = Triple(<<>>, <<>>, MSG_NOT_AVAILABLE)

\* a run that ended on a completion holding the sentinel inside other text
C2_Witness ==
    /\ pc = "done"
    /\ returned
    /\ ~raw_sql.none
    /\ Contains(raw_sql.text, SENTINEL)
    /\ raw_sql.text /= SENTINEL
    /\ ~MatchAt(raw_sql.text, 1, SENTINEL)

\* C3: when get_all_tables returned the empty list, no Language Model
\* Service call is made in the run.
C3_NoModelCallWithoutTables ==
    (pc \notin {"client", "tables"} /\ tables = <<>>) => llm_calls = 0

C12_FailedExecutionStillSynthesizes ==
    (pc = "done" /\ failure = "execute" /\ tables /= <<>>) => llm_calls = 2

\* the rows of the result set whose text stands in the prompt
RowsInPrompt(prompt) ==
    {n \in 1..Len(results) : Contains(prompt, IntToStr(results[n]))}

\* C13: the answer-synthesis prompt holds at most the first 5 rows of the
\* result set; no row after the fifth stands in it.
C13_AtMostFiveRowsInPrompt ==
    RowsInPrompt(nl_prompt) \subseteq 1..5

\* C14: prompt compilation has no failure outcome: for the snapshot of
\* every run get_sql_prompt returns a prompt, and no run fails at that step.
C14_PromptCompilationNeverFails ==
    /\ pc = "prompt" => get_sql_prompt(schema_metadata).ok
    /\ failure /= "prompt"

\* ------------------------------------------------------------------------
\* Direct calls of generate_table_aliases, clean_sql_query, validate_query
\* ------------------------------------------------------------------------

\* process_question is not running
Idle ==
    /\ pc = "idle"
    /\ database = DbEmpty
    /\ tables = <<>>
    /\ next_table = 1
    /\ schema_metadata = <<>>
    /\ raw_sql = [none |-> TRUE, text |-> <<>>]
    /\ cleaned_sql = <<>>
    /\ results = <<>>
    /\ ret = Triple(<<>>, <<>>, <<>>)
    /\ returned = FALSE
    /\ escaped = FALSE
    /\ failure = "none"
    /\ llm_calls = 0
    /\ executed = <<>>
    /\ nl_prompt = <<>>
    /\ history = {}
    /\ reads_failed = FALSE
    /\ frames = <<>>
    /\ open_conns = 0

\* how many tables a list passed to generate_table_aliases holds at most
MaxTables == 4

\* table names, in the order of ORDER BY table_name under the C collation:
\* Ab, a_1, a__b, a_b, a_b_1, a_bc, ab, abc
AliasPool == <<
    <<"A", "b">>,
    <<"a", "_", "1">>,
    <<"a", "_", "_", "b">>,
    <<"a", "_", "b">>,
    <<"a", "_", "b", "_", "1">>,
    <<"a", "_", "b", "c">>,
    <<"a", "b">>,
    <<"a", "b", "c">> >>

\* the elements of pool at the indices in S, in the order of pool
RECURSIVE Pick(_, _, _)
Pick(pool, S, i) ==
    IF i > Len(pool) THEN <<>>
    ELSE IF i \in S THEN <<pool[i]>> \o Pick(pool, S, i + 1)
         ELSE Pick(pool, S, i + 1)

\* the lists get_all_tables can return: distinct names, sorted
TableLists ==
    {Pick(AliasPool, S, 1) :
        S \in {T \in SUBSET DOMAIN AliasPool : Cardinality(T) <= MaxTables}}

InitAliases ==
    /\ Idle
    /\ arg \in {[tables |-> l] : l \in TableLists}
    /\ out = <<>>
    /\ called = FALSE

\* aliases = generate_table_aliases(tables)
CallGenerateTableAliases ==
    /\ ~called
    /\ out' = generate_table_aliases(arg.tables)
    /\ called' = TRUE
    /\ UNCHANGED arg
    /\ UNCHANGED run_vars
    /\ UNCHANGED conn_vars

NextAliases == CallGenerateTableAliases

SpecAliases == InitAliases /\ [][NextAliases]_vars

\* C9: the aliases generate_table_aliases returns for a list of distinct
\* table names are pairwise distinct.
C9_AliasesDistinct ==
    (called /\ out.ok) =>
        \A i, j \in DOMAIN out.aliases :
            i /= j => out.aliases[i].v /= out.aliases[j].v

\* the snapshots of the databases that have tables, every read succeeding
Snapshots == {get_schema_metadata(db) : db \in {DbOrders, DbStaff}}

\* a text without the sentinel that holds it once its fence is taken out
SplitSentinel ==
    <<"S", "C", "H", "E", "M", "A", "_">> \o FENCE
        \o <<"E", "R", "R", "O", "R">>

\* a text in which taking a fence out brings three backticks together:
\* two backticks, a newline, four backticks, then a query
SplitFence ==
    <<BT, BT>> \o NL \o FENCE \o <<BT>> \o SP
        \o Render([kind |-> "select",
                   col |-> [form |-> "star", t |-> <<>>, c |-> <<>>],
                   tab |-> [form |-> "quoted", t |-> orders]])

\* the texts clean_sql_query is called with
CleanInputs ==
    {Render(q) : q \in SelectQueries(Names)} \cup CompletionTexts
        \cup {SplitSentinel, SplitFence}

InitClean ==
    /\ Idle
    /\ arg \in {[sql |-> sql, schema_metadata |-> m, again |-> FALSE] :
                   sql \in CleanInputs, m \in Snapshots}
    /\ out = <<>>
    /\ called = FALSE

\* cleaned_sql = clean_sql_query(raw_sql, schema_metadata)
CallCleanSqlQuery ==
    /\ ~called
    /\ out' = clean_sql_query(arg.sql, arg.schema_metadata)
    /\ called' = TRUE
    /\ UNCHANGED arg
    /\ UNCHANGED run_vars
    /\ UNCHANGED conn_vars

\* clean_sql_query(cleaned_sql, schema_metadata): the function applied to
\* the text it returned, against the same snapshot
CallCleanSqlQueryAgain ==
    /\ called
    /\ ~arg.again
    /\ out.ok
    /\ arg' = [arg EXCEPT !.sql = out.sql, !.again = TRUE]
    /\ out' = clean_sql_query(out.sql, arg.schema_metadata)
    /\ UNCHANGED called
    /\ UNCHANGED run_vars
    /\ UNCHANGED conn_vars

NextClean ==
    \/ CallCleanSqlQuery
    \/ CallCleanSqlQueryAgain

SpecClean == InitClean /\ [][NextClean]_vars

\* name stands at position i of s as a whole identifier
IdentAt(s, i, name) ==
    /\ MatchAt(s, i, name)
    /\ i = 1 \/ s[i - 1] \notin WordChars
    /\ i + Len(name) > Len(s) \/ s[i + Len(name)] \notin WordChars

\* the identifier of that length at position i stands in double quotes
QuotedAt(s, i, name) ==
    /\ i > 1
    /\ s[i - 1] = DQ
    /\ i + Len(name) <= Len(s)
    /\ s[i + Len(name)] = DQ

\* every occurrence of name in s as an identifier is quoted
AllQuoted(s, name) ==
    \A i \in DOMAIN s : IdentAt(s, i, name) => QuotedAt(s, i, name)

\* name occurs in s as an identifier
Mentions(s, name) == \E i \in DOMAIN s : IdentAt(s, i, name)

\* C10: in the text clean_sql_query returns, every occurrence of a table
\* name of the snapshot, and of a column name of a table the text mentions,
\* stands in double quotes.
C10_KnownNamesQuoted ==
    (called /\ out.ok) =>
        LET m == arg.schema_metadata IN
        \A t \in Range(TableKeys(m)) :
            /\ AllQuoted(out.sql, t)
            /\ Mentions(out.sql, t) =>
                  \A c \in Range(DictGet(m, t).columns) : AllQuoted(out.sql, c)

ValidateInputs ==
    {[q |-> q, sql |-> Render(q), schema_metadata |-> m] :
        q \in SelectQueries(Names), m \in Snapshots}
    \cup UNION {{[q |-> q, sql |-> Render(q), schema_metadata |-> m] :
                    q \in JoinQueries(Names, Range(TableKeys(m)))} :
                m \in Snapshots}

InitValidate ==
    /\ Idle
    /\ arg \in ValidateInputs
    /\ out = <<>>
    /\ called = FALSE

\* validate_query(sql, schema_metadata)
CallValidateQuery ==
    /\ ~called
    /\ \E o \in validate_query(arg.sql, arg.schema_metadata) : out' = o
    /\ called' = TRUE
    /\ UNCHANGED arg
    /\ UNCHANGED run_vars
    /\ UNCHANGED conn_vars

NextValidate == CallValidateQuery

SpecValidate == InitValidate /\ [][NextValidate]_vars

\* the snapshot's tables, and the columns of one of them
TablesOf(m) == Range(TableKeys(m))
ColumnsOf(m, t) == Range(DictGet(m, t).columns)

\* the snapshot has the foreign-key edge t.c -> ft.fc
HasEdge(m, t, c, ft, fc) ==
    \E r \in DOMAIN RelationshipsOf(m) :
        RelationshipsOf(m)[r] = FkRow(t, c, ft, fc)

\* the double-quoted names of a query that stand for a table
QuotedTables(q) ==
    IF q.kind = "join" THEN {q.x, q.y}
    ELSE (IF q.tab.form = "quoted" THEN {q.tab.t} ELSE {})
         \cup (IF q.col.form = "qualified" THEN {q.col.t} ELSE {})

\* the "table"."column" pairs of a query
QualifiedPairs(q) ==
    IF q.kind = "join" THEN {<<q.x, q.c>>, <<q.y, q.d>>}
    ELSE IF q.col.form = "qualified" THEN {<<q.col.t, q.col.c>>} ELSE {}

\* every double-quoted name of the query is in the snapshot: a table where
\* it stands for a table, a column of its table where it stands for a column
AllQuotedKnown(q, m) ==
    /\ QuotedTables(q) \subseteq TablesOf(m)
    /\ \A p \in QualifiedPairs(q) : p[2] \in ColumnsOf(m, p[1])
    /\ (q.kind = "select" /\ q.col.form = "quoted") =>
          /\ q.tab.t \in TablesOf(m)
          /\ q.col.c \in ColumnsOf(m, q.tab.t)

\* C5: validate_query returns True for every query whose double-quoted
\* names are all tables and columns of the snapshot.
C5_AcceptsKnownNames ==
    (called /\ AllQuotedKnown(arg.q, arg.schema_metadata)) => out.ok

\* C6: validate_query does not return True for a query that names, in double
\* quotes, a table the snapshot does not have, or a "table"."column" pair
\* whose column is not one of that table.
C6_RejectsUnknownNames ==
    LET q == arg.q
        m == arg.schema_metadata
    IN  (/\ called
         /\ \/ QuotedTables(q) \ TablesOf(m) /= {}
            \/ \E p \in QualifiedPairs(q) :
                  p[1] \in TablesOf(m) /\ p[2] \notin ColumnsOf(m, p[1]))
        => ~out.ok

\* a join of two tables of the snapshot on columns they have
JoinOnExistingColumns(q, m) ==
    /\ q.kind = "join"
    /\ q.c \in ColumnsOf(m, q.x)
    /\ q.d \in ColumnsOf(m, q.y)

\* the snapshot has a foreign-key edge between the two sides of the ON
\* equality, in one direction or the other
EdgeEitherWay(q, m) ==
    \/ HasEdge(m, q.x, q.c, q.y, q.d)
    \/ HasEdge(m, q.y, q.d, q.x, q.c)

\* C7: a join of two tables of the snapshot on existing columns with no
\* foreign-key edge between them is accepted, with an 'Unrecognized join'
\* warning.
C7_UndeclaredJoinWarnsAndAccepts ==
    LET q == arg.q
        m == arg.schema_metadata
    IN  (/\ called
         /\ JoinOnExistingColumns(q, m)
         /\ q.x /= q.y
         /\ ~EdgeEitherWay(q, m))
        => (out.ok /\ out.warnings /= <<>>)

\* C8: a join whose ON equality has a foreign-key edge of the snapshot in
\* either direction gets no warning, whichever table is named after JOIN.
C8_EdgeEitherWayNoWarning ==
    LET q == arg.q
        m == arg.schema_metadata
    IN  (called /\ JoinOnExistingColumns(q, m) /\ EdgeEitherWay(q, m))
        => out.warnings = <<>>

\* ------------------------------------------------------------------------
\* get_schema_metadata read while another client changes the schema
\* ------------------------------------------------------------------------

\* how many schema changes another client commits during one snapshot
MaxChanges == 1

\* another client commits a schema change between two reads: each read of
\* get_schema_metadata opens a connection of its own (database.py 24, 48,
\* 76), so no transaction spans them
SchemaChange ==
    /\ pc = "schema"
    /\ Cardinality(history) <= MaxChanges
    /\ \E db \in SnapshotDatabases \ {database} :
          /\ database' = db
          /\ history' = history \cup {db}
    /\ UNCHANGED <<pc, tables, next_table, schema_metadata, raw_sql,
                   cleaned_sql, results, ret, returned, escaped, failure,
                   llm_calls, executed, nl_prompt, reads_failed>>
    /\ UNCHANGED conn_vars
    /\ UNCHANGED call_vars

\* schema_metadata = get_schema_metadata() is about to run
InitSnapshot ==
    /\ pc = "tables"
    /\ database \in SnapshotDatabases
    /\ tables = <<>>
    /\ next_table = 1
    /\ schema_metadata = <<>>
    /\ raw_sql = [none |-> TRUE, text |-> <<>>]
    /\ cleaned_sql = <<>>
    /\ results = <<>>
    /\ ret = Triple(<<>>, <<>>, <<>>)
    /\ returned = FALSE
    /\ escaped = FALSE
    /\ failure = "none"
    /\ llm_calls = 0
    /\ executed = <<>>
    /\ nl_prompt = <<>>
    /\ history = {}
    /\ reads_failed = FALSE
    /\ frames = <<>>
    /\ open_conns = 0
    /\ NoCall

NextSnapshot ==
    \/ GetAllTables
    \/ GetTableSchema
    \/ GetTableRelationships
    \/ SchemaChange

SpecSnapshot == InitSnapshot /\ [][NextSnapshot]_vars

\* get_schema_metadata has returned and none of its reads failed
SnapshotBuilt == pc = "prompt" /\ ~reads_failed

\* C15: a snapshot built from reads that all succeeded is the schema of the
\* database as it stood at one instant of the build: what get_schema_metadata
\* returns over one of the schemas the database had since the first read.
C15_PointInTimeCapture ==
    SnapshotBuilt =>
        \E db \in history : schema_metadata = get_schema_metadata(db)

\* C17: in a snapshot built from reads that all succeeded, with no schema
\* change under way, every table of the table list is one of the tables the
\* later stages take from the snapshot and keeps its own column list.
C17_EveryListedTableKept ==
    (SnapshotBuilt /\ history = {database}) =>
        \A i \in DOMAIN tables :
            /\ tables[i] \in Range(TableKeys(schema_metadata))
            /\ DictGet(schema_metadata, tables[i])
                   = TableEntry(DictGet(database.columns, tables[i]))

\* ------------------------------------------------------------------------
\* database.py: the connection of each helper
\* ------------------------------------------------------------------------

\* how many connections the database server accepts at once
MaxConnections == 3

\* the helpers of database.py that open a connection
Helpers == {"get_all_tables", "get_table_schema", "get_table_relationships",
            "get_database_stats", "execute_sql_query", "get_table_preview"}

\* a helper that was just called: it stands before get_database_connection()
Frame(helper) == [helper |-> helper, at |-> "connect", result |-> "pending"]

\* the innermost running helper
Top == frames[Len(frames)]

SetTop(f) == [frames EXCEPT ![Len(frames)] = f]

\* whether the helper has passed `if not conn: return`, conn being open
HoldsConnection(f) == f.at /= "connect"

\* a faulty variant of the release: conn.close() as the last statement of
\* the try block, which an exception skips
Close_OnSuccessOnly(f, n) == IF f.result = "error" THEN n ELSE n - 1

\* the finally clause of every helper: conn.close()
Close(f, n) == n - 1

\* the innermost helper returns: to the caller of database.py, or to line
\* 134 of get_database_stats
ReturnFrom(result) ==
    IF Len(frames) = 1
    THEN /\ frames' = <<>>
         /\ out' = [helper |-> Top.helper, result |-> result]
         /\ called' = TRUE
    ELSE /\ frames' = <<[frames[1] EXCEPT !.at = "count"]>>
         /\ UNCHANGED <<out, called>>

\* a caller of database.py calls one of the helpers
CallHelper ==
    /\ frames = <<>>
    /\ \E helper \in Helpers : frames' = <<Frame(helper)>>
    /\ UNCHANGED <<open_conns, out, called>>
    /\ UNCHANGED <<arg, run_vars>>

\* conn = get_database_connection(); if not conn: return []  (lines 6-13 and
\* the first three lines of every helper): psycopg2.connect returns a
\* connection, or raises and the helper returns at once
Connect ==
    /\ frames /= <<>>
    /\ Top.at = "connect"
    /\ \/ /\ open_conns < MaxConnections
          /\ open_conns' = open_conns + 1
          /\ frames' = SetTop([Top EXCEPT !.at = "execute"])
          /\ UNCHANGED <<out, called>>
       \/ /\ ReturnFrom("no_connection")
          /\ UNCHANGED open_conns
    /\ UNCHANGED <<arg, run_vars>>

\* with conn.cursor() as cur: cur.execute(...): it returns or raises
Execute ==
    /\ frames /= <<>>
    /\ Top.at = "execute"
    /\ \E ok \in BOOLEAN :
          frames' = SetTop([Top EXCEPT !.at = IF ok THEN "fetch" ELSE "except"])
    /\ UNCHANGED <<open_conns, out, called>>
    /\ UNCHANGED <<arg, run_vars>>

\* cur.fetchall() / cur.fetchone()[0]: it returns or raises; after it the
\* helper returns its value, get_database_stats goes on to line 134
Fetch ==
    /\ frames /= <<>>
    /\ Top.at = "fetch"
    /\ \E ok \in BOOLEAN :
          frames' = SetTop(
              IF ~ok THEN [Top EXCEPT !.at = "except"]
              ELSE IF Top.helper = "get_database_stats"
                   THEN [Top EXCEPT !.at = "tables"]
                   ELSE [Top EXCEPT !.at = "finally", !.result = "value"])
    /\ UNCHANGED <<open_conns, out, called>>
    /\ UNCHANGED <<arg, run_vars>>

\* line 134 of get_database_stats: tables = get_all_tables(), called while
\* the connection of get_database_stats is open
CallGetAllTables ==
    /\ frames /= <<>>
    /\ Top.at = "tables"
    /\ frames' = Append(SetTop([Top EXCEPT !.at = "awaiting"]),
                        Frame("get_all_tables"))
    /\ UNCHANGED <<open_conns, out, called>>
    /\ UNCHANGED <<arg, run_vars>>

\* lines 135-147 of get_database_stats: the row counts, each in a try of
\* its own whose except clause goes on to the next table, then the return
CountRows ==
    /\ frames /= <<>>
    /\ Top.at = "count"
    /\ frames' = SetTop([Top EXCEPT !.at = "finally", !.result = "value"])
    /\ UNCHANGED <<open_conns, out, called>>
    /\ UNCHANGED <<arg, run_vars>>

\* except Exception as e: st.error(...); return []
Except ==
    /\ frames /= <<>>
    /\ Top.at = "except"
    /\ frames' = SetTop([Top EXCEPT !.at = "finally", !.result = "error"])
    /\ UNCHANGED <<open_conns, out, called>>
    /\ UNCHANGED <<arg, run_vars>>

\* finally: conn.close(), then the return that was pending
Finally ==
    /\ frames /= <<>>
    /\ Top.at = "finally"
    /\ open_conns' = Close(Top, open_conns)
    /\ ReturnFrom(Top.result)
    /\ UNCHANGED <<arg, run_vars>>

InitDatabase ==
    /\ Idle
    /\ NoCall

NextDatabase ==
    \/ CallHelper
    \/ Connect
    \/ Execute
    \/ Fetch
    \/ CallGetAllTables
    \/ CountRows
    \/ Except
    \/ Finally

SpecDatabase == InitDatabase /\ [][NextDatabase]_vars

\* C16: the connections open are exactly those of the helpers still running
\* that have acquired one; once every helper has returned, on whatever path,
\* no connection is open.
C16_ConnectionsReleased ==
    /\ open_conns = Cardinality({i \in DOMAIN frames :
                                    HoldsConnection(frames[i])})
    /\ frames = <<>> => open_conns = 0

\* execute_sql_query has returned through its except clause, after the
\* query or the fetch raised
C16_Witness ==
    /\ frames = <<>>
    /\ called
    /\ out = [helper |-> "execute_sql_query", result |-> "error"]

====
